---- MODULE Spec2Model ----
(***************************************************************************)
(* Model of test-saucelabs (src/unnamed/part_000 lines 1-217, the revision *)
(* with runInParallel and the StaleElementReference retry).                *)
(*                                                                         *)
(* One run of module.exports: the coordinator builds NumTasks runner tasks *)
(* (makeTest), hands them to async `parallel` or `series`, each runner     *)
(* initialises a session on the ONE shared wd driver, polls the job status *)
(* and scrapes the three QUnit counters, and calls testComplete.           *)
(* Every asynchronous callback of the source is one action.                *)
(***************************************************************************)
EXTENDS Integers, Sequences, FiniteSets, TLC

\* number of runner tasks pushed by module.exports (urls x platforms)
NumTasks == 2

\* const MAX_RETRIES = 10
MAX_RETRIES == 10

Tasks == 1..NumTasks

\* a session created by task t's driver.init has id t; 0 is "no session"
Sessions == 0..NumTasks

\* ids the event loop can hand out for keep-alive timers
TimerIds == 1..(NumTasks + 2)

\* texts the page can show in a counter during a run
Texts == {"0", "5"}

VARIABLES
    options,             \* the argument of module.exports
    allPlatformsPassed,  \* let allPlatformsPassed = true
    allowZeroAssertions, \* let allowZeroAssertions = true
    retryCount,          \* let retryCount = 0
    keepAliveTimeoutId,  \* let keepAliveTimeoutId (0 = undefined / null)
    keepAliveTimers,     \* keep-alive timers pending in the event loop
    driverSession,       \* sessionID held by the shared wd driver
    coord,               \* "idle" | "running" | "quitting" | "exited" | "crashed"
    completed,           \* tasks async has counted as completed without error
    exitCode,            \* -1 while the process is alive
    initCall,            \* per task: "none" | "pending" | "ok" | "err"
    navigated,           \* tasks that issued driver.get(url)
    jobTimeoutId,        \* per task: let jobTimeoutId, TRUE when truthy
    poller,              \* per task: "none" | "query" | "timer" | "stopped"
    scraper,             \* per task: "none" | "wait" | "text" | "done" | "hung"
    texts,               \* per task: results collected by the inner series
    statuses,            \* per task: arguments of its testComplete calls
    cbCalls,             \* per task: number of calls of its cb
    cbErrs,              \* per task: number of calls of its cb with an error
    closeCalls,          \* per session: number of driver.quit calls issued on it
    closedBy,            \* <<caller, session>> of every driver.quit (caller 0 = complete)
    reportedBy,          \* <<task, session, status>> of every driver.sauceJobStatus
    pureIn,              \* input of a pure-function application
    pureOut              \* its result

runVars == <<options, allPlatformsPassed, allowZeroAssertions, retryCount,
             keepAliveTimeoutId, keepAliveTimers, driverSession, coord,
             completed, exitCode, initCall, navigated, jobTimeoutId, poller,
             scraper, texts, statuses, cbCalls, cbErrs, closeCalls, closedBy,
             reportedBy>>

vars == <<runVars, pureIn, pureOut>>

NoPure == [kind |-> "none"]

----------------------------------------------------------------------------
(* Pure functions *)

\* mutant of AllTestsPassed: the zero-assertions test is left out
AllTestsPassed_NoZeroTest(passed, failed, total, allowZero) ==
    passed = total /\ failed = "0"

\* passed === total && failed === "0" && (total !== '0' || allowZeroAssertions)
AllTestsPassed(passed, failed, total, allowZero) ==
    passed = total /\ failed = "0" /\ (total # "0" \/ allowZero)

\* zeroAssertionsPass === undefined ? allowZeroAssertions : zeroAssertionsPass
ZeroAssertionsOption(zeroAssertionsPass, current) ==
    IF zeroAssertionsPass = "undefined" THEN current
    ELSE (zeroAssertionsPass = "true")

(* Strings that are built or trimmed are sequences of characters; an object *)
(* is the sequence of its <<key, value>> entries in insertion order.         *)

Str1(c) == <<c>>

Has(obj, key) == \E i \in 1..Len(obj) : obj[i][1] = key

\* obj.key: the empty string stands for undefined, both are falsy
Get(obj, key) ==
    IF Has(obj, key)
    THEN obj[CHOOSE i \in 1..Len(obj) : obj[i][1] = key][2]
    ELSE <<>>

\* obj[key] = value: an existing key keeps its place
Set(obj, key, value) ==
    IF Has(obj, key)
    THEN [i \in 1..Len(obj) |-> IF obj[i][1] = key THEN <<key, value>> ELSE obj[i]]
    ELSE Append(obj, <<key, value>>)

\* Object.assign(target, source)
RECURSIVE Assign(_, _)
Assign(target, source) ==
    IF source = <<>> THEN target
    ELSE Assign(Set(target, Head(source)[1], Head(source)[2]), Tail(source))

RECURSIVE TrimStart(_)
TrimStart(str) ==
    IF str # <<>> /\ Head(str) = " " THEN TrimStart(Tail(str)) ELSE str

RECURSIVE TrimEnd(_)
TrimEnd(str) ==
    IF str # <<>> /\ str[Len(str)] = " "
    THEN TrimEnd(SubSeq(str, 1, Len(str) - 1)) ELSE str

\* String.prototype.trim
Trim(str) == TrimEnd(TrimStart(str))

\* const PLATFORM_DEFAULTS (build and tunnelIdentifier come from process.env)
PLATFORM_DEFAULTS ==
    << <<"maxDuration", <<"1", "8", "0", "0">> >>,
       <<"commandTimeout", <<"3", "0", "0">> >>,
       <<"idleTimeout", <<"3", "0", "0">> >>,
       <<"build", <<"$">> >>,
       <<"tunnelIdentifier", <<"$">> >> >>

\* platformName += platform.key ? platform.key + ' ' : ''
NamePart(platform, key) ==
    IF Get(platform, key) # <<>> THEN Get(platform, key) \o Str1(" ") ELSE <<>>

\* mutant of processPlatform: browserName is added before platformVersion
processPlatform_Swapped(testName, platform) ==
    LET platformName ==
            NamePart(platform, "deviceName") \o NamePart(platform, "platform")
         \o NamePart(platform, "platformName")
         \o NamePart(platform, "browserName")
         \o NamePart(platform, "platformVersion") \o NamePart(platform, "version")
        name == testName \o <<" ", "(">> \o Trim(platformName) \o <<")">>
    IN  Assign(Assign(PLATFORM_DEFAULTS, platform), << <<"name", name>> >>)

\* function processPlatform(testName, platform)
processPlatform(testName, platform) ==
    LET platformName ==
            NamePart(platform, "deviceName") \o NamePart(platform, "platform")
         \o NamePart(platform, "platformName")
         \o NamePart(platform, "platformVersion")
         \o NamePart(platform, "browserName") \o NamePart(platform, "version")
        name == testName \o <<" ", "(">> \o Trim(platformName) \o <<")">>
    IN  Assign(Assign(PLATFORM_DEFAULTS, platform), << <<"name", name>> >>)

----------------------------------------------------------------------------
(* The coordinator: module.exports, async parallel / series, complete *)

\* the part of the state a call of a task's cb can change
CState == [coord |-> coord, completed |-> completed, cbCalls |-> cbCalls,
           cbErrs |-> cbErrs, initCall |-> initCall,
           kaId |-> keepAliveTimeoutId, kaTimers |-> keepAliveTimers,
           closeCalls |-> closeCalls, closedBy |-> closedBy,
           exitCode |-> exitCode]

Apply(C) ==
    /\ coord' = C.coord
    /\ completed' = C.completed
    /\ cbCalls' = C.cbCalls
    /\ cbErrs' = C.cbErrs
    /\ initCall' = C.initCall
    /\ keepAliveTimeoutId' = C.kaId
    /\ keepAliveTimers' = C.kaTimers
    /\ closeCalls' = C.closeCalls
    /\ closedBy' = C.closedBy
    /\ exitCode' = C.exitCode

\* setTimeout returns a timer distinct from every pending one and from the
\* one the variable still refers to
FreshTimer(C) ==
    CHOOSE n \in TimerIds :
        /\ n \notin C.kaTimers /\ n # C.kaId
        /\ \A m \in TimerIds : (m \notin C.kaTimers /\ m # C.kaId) => n <= m

\* function initKeepAlive(): keepAliveTimeoutId = setTimeout(initKeepAlive, ...)
initKeepAlive(C) ==
    LET n == FreshTimer(C)
    IN  [C EXCEPT !.kaId = n, !.kaTimers = C.kaTimers \cup {n}]

\* mutant of clearKeepAlive: the variable is reset but the timer is not cleared
clearKeepAlive_NoClearTimeout(C) ==
    [C EXCEPT !.kaId = 0]

\* if (keepAliveTimeoutId) { clearTimeout(keepAliveTimeoutId); keepAliveTimeoutId = null; }
clearKeepAlive(C) ==
    IF C.kaId # 0
    THEN [C EXCEPT !.kaTimers = C.kaTimers \ {C.kaId}, !.kaId = 0]
    ELSE C

\* mutant of StartTask: initKeepAlive is called without the test of
\* keepAliveTimeoutId
StartTask_NoGuard(C, t) ==
    [initKeepAlive(C) EXCEPT !.initCall[t] = "pending"]

\* makeTest's returned function(cb), up to the call of driver.init
StartTask(C, t) ==
    LET C1 == IF C.kaId = 0 THEN initKeepAlive(C) ELSE C
    IN  [C1 EXCEPT !.initCall[t] = "pending"]

\* driver.quit() on the shared driver: closes the session the driver holds
Quit(C, caller, ds) ==
    [C EXCEPT !.closeCalls[ds] = C.closeCalls[ds] + 1,
              !.closedBy = C.closedBy \cup {<<caller, ds>>}]

\* const complete = () => { ...; driver.quit(() => process.exit(...)) }
complete(C, ds) ==
    [Quit(C, 0, ds) EXCEPT !.coord = "quitting"]

\* parallel(tasks, complete): every task function is called in list order
RECURSIVE StartAll(_, _)
StartAll(C, t) ==
    IF t > NumTasks THEN C ELSE StartAll(StartTask(C, t), t + 1)

\* the callback async hands to task t. A second call throws ("Callback was
\* already called"): the exception either ends the process or is swallowed by
\* the library whose callback was running. An error ends the run at once;
\* otherwise parallel counts the task and series starts the next one.
Cb(C, t, err, crash, parallel, ds) ==
    LET C1 == [C EXCEPT !.cbCalls[t] = C.cbCalls[t] + 1,
                        !.cbErrs[t] = C.cbErrs[t] + (IF err THEN 1 ELSE 0)]
    IN  IF C.cbCalls[t] >= 1
        THEN IF crash THEN [C1 EXCEPT !.coord = "crashed", !.exitCode = 1]
                      ELSE C1
        ELSE IF C1.coord # "running" THEN C1
        ELSE IF err THEN complete(C1, ds)
        ELSE LET C2 == [C1 EXCEPT !.completed = C1.completed + 1]
             IN  IF C2.completed = NumTasks THEN complete(C2, ds)
                 ELSE IF parallel THEN C2
                 ELSE StartTask(C2, C2.completed + 1)

\* mutant of Launch: the test of runInParallel is inverted
Launch_Inverted(C, parallel) ==
    IF parallel THEN StartTask(C, 1) ELSE StartAll(C, 1)

\* if (runInParallel) { parallel(tests, complete); } else { series(tests, complete); }
Launch(C, parallel) ==
    IF parallel THEN StartAll(C, 1) ELSE StartTask(C, 1)

Alive == coord \in {"running", "quitting"}

\* module.exports = function({ urls, platforms, zeroAssertionsPass, runInParallel })
Run ==
    /\ coord = "idle"
    /\ allowZeroAssertions' = ZeroAssertionsOption(options.zeroAssertionsPass,
                                                   allowZeroAssertions)
    /\ LET C0 == [CState EXCEPT !.coord = "running"]
       IN  Apply(Launch(C0, options.runInParallel))
    /\ UNCHANGED <<options, allPlatformsPassed, retryCount, driverSession,
                   navigated, jobTimeoutId, poller, scraper, texts, statuses,
                   reportedBy, pureIn, pureOut>>

\* driver.quit's callback in complete: process.exit(allPlatformsPassed ? 0 : 1)
QuitReturns ==
    /\ coord = "quitting"
    /\ coord' = "exited"
    /\ exitCode' = IF allPlatformsPassed THEN 0 ELSE 1
    /\ UNCHANGED <<options, allPlatformsPassed, allowZeroAssertions, retryCount,
                   keepAliveTimeoutId, keepAliveTimers, driverSession,
                   completed, initCall, navigated, jobTimeoutId, poller,
                   scraper, texts, statuses, cbCalls, cbErrs, closeCalls,
                   closedBy, reportedBy, pureIn, pureOut>>

\* the keep-alive timer fires: initKeepAlive runs again
KeepAliveTick ==
    /\ Alive
    /\ \E n \in keepAliveTimers :
         LET C0 == [CState EXCEPT !.kaTimers = keepAliveTimers \ {n}]
         IN  Apply(initKeepAlive(C0))
    /\ UNCHANGED <<options, allPlatformsPassed, allowZeroAssertions, retryCount,
                   driverSession, navigated, jobTimeoutId, poller, scraper,
                   texts, statuses, reportedBy, pureIn, pureOut>>

----------------------------------------------------------------------------
(* The runner: makeTest *)

\* mutant of testComplete: the status is not folded into allPlatformsPassed
testComplete_NoFold(t, status, crash, pol, C) ==
    /\ jobTimeoutId' = [jobTimeoutId EXCEPT ![t] = FALSE]
    /\ poller' = [pol EXCEPT ![t] = IF jobTimeoutId[t] /\ pol[t] = "timer"
                                    THEN "stopped" ELSE pol[t]]
    /\ reportedBy' = reportedBy \cup {<<t, driverSession, status>>}
    /\ allPlatformsPassed' = allPlatformsPassed
    /\ statuses' = [statuses EXCEPT ![t] = Append(statuses[t], status)]
    /\ Apply(Cb(Quit(C, t, driverSession), t, FALSE, crash,
                options.runInParallel, driverSession))

\* const testComplete = function(status), called by task t. pol is poller as
\* the calling callback leaves it, C the coordination state it leaves.
testComplete(t, status, crash, pol, C) ==
    /\ jobTimeoutId' = [jobTimeoutId EXCEPT ![t] = FALSE]
    /\ poller' = [pol EXCEPT ![t] = IF jobTimeoutId[t] /\ pol[t] = "timer"
                                    THEN "stopped" ELSE pol[t]]
    /\ reportedBy' = reportedBy \cup {<<t, driverSession, status>>}
    /\ allPlatformsPassed' = (allPlatformsPassed /\ status)
    /\ statuses' = [statuses EXCEPT ![t] = Append(statuses[t], status)]
    /\ Apply(Cb(Quit(C, t, driverSession), t, FALSE, crash,
                options.runInParallel, driverSession))

\* mutant of checkTestResultsDone: the test of err is inverted, a failed
\* read reports success
checkTestResultsDone_ErrPasses(t, err, results, crash, scr) ==
    /\ retryCount' = retryCount
    /\ scraper' = [scr EXCEPT ![t] = "done"]
    /\ testComplete(t, err # "none", crash, poller, CState)

\* the callback of the inner series in checkTestResults, run by task t with
\* err in {"none", "error", "RETRY"}; scr is scraper as the caller leaves it.
\* setTImeout is not defined: calling it throws a ReferenceError.
checkTestResultsDone(t, err, results, crash, scr) ==
    IF err = "RETRY" /\ retryCount < MAX_RETRIES
    THEN /\ retryCount' = retryCount + 1
         /\ scraper' = [scr EXCEPT ![t] = "hung"]
         /\ coord' = IF crash THEN "crashed" ELSE coord
         /\ exitCode' = IF crash THEN 1 ELSE exitCode
         /\ UNCHANGED <<jobTimeoutId, poller, reportedBy, allPlatformsPassed,
                        statuses, completed, cbCalls, cbErrs, initCall,
                        keepAliveTimeoutId, keepAliveTimers, closeCalls,
                        closedBy>>
    ELSE /\ retryCount' = IF err = "RETRY" THEN retryCount + 1 ELSE retryCount
         /\ scraper' = [scr EXCEPT ![t] = "done"]
         /\ testComplete(t,
                IF err # "none" THEN FALSE
                ELSE AllTestsPassed(results[1], results[2], results[3],
                                    allowZeroAssertions),
                crash, poller, CState)

\* driver.init's callback
InitReturns(t, err) ==
    /\ Alive
    /\ initCall[t] = "pending"
    /\ IF err
       THEN /\ \E crash \in BOOLEAN :
                 testComplete(t, FALSE, crash, poller,
                              [CState EXCEPT !.initCall[t] = "err"])
            /\ UNCHANGED <<driverSession, navigated, scraper, texts, retryCount>>
       ELSE /\ Apply(clearKeepAlive([CState EXCEPT !.initCall[t] = "ok"]))
            /\ driverSession' = t
            /\ poller' = [poller EXCEPT ![t] = "query"]
            /\ navigated' = navigated \cup {t}
            /\ scraper' = [scraper EXCEPT ![t] = "wait"]
            /\ UNCHANGED <<allPlatformsPassed, retryCount, jobTimeoutId, texts,
                           statuses, reportedBy>>
    /\ UNCHANGED <<options, allowZeroAssertions, pureIn, pureOut>>

\* account.showJob's callback in pollSauceLabsStatus; r is what came back
ShowJobReturns(t, r) ==
    /\ Alive
    /\ poller[t] = "query"
    /\ CASE r = "queryErr" ->
              /\ poller' = [poller EXCEPT ![t] = "stopped"]
              /\ UNCHANGED <<allPlatformsPassed, coord, completed, exitCode,
                             initCall, keepAliveTimeoutId, keepAliveTimers,
                             jobTimeoutId, statuses, cbCalls, cbErrs,
                             closeCalls, closedBy, reportedBy>>
         [] r = "jobErr" ->
              \E crash \in BOOLEAN :
                  testComplete(t, FALSE, crash,
                               [poller EXCEPT ![t] = "stopped"], CState)
         [] r = "ok" ->
              /\ jobTimeoutId' = [jobTimeoutId EXCEPT ![t] = TRUE]
              /\ poller' = [poller EXCEPT ![t] = "timer"]
              /\ UNCHANGED <<allPlatformsPassed, coord, completed, exitCode,
                             initCall, keepAliveTimeoutId, keepAliveTimers,
                             statuses, cbCalls, cbErrs, closeCalls, closedBy,
                             reportedBy>>
    /\ UNCHANGED <<options, allowZeroAssertions, retryCount, driverSession,
                   navigated, scraper, texts, pureIn, pureOut>>

\* the timer of jobTimeoutId fires: pollSauceLabsStatus runs again
JobTimerFires(t) ==
    /\ Alive
    /\ poller[t] = "timer"
    /\ poller' = [poller EXCEPT ![t] = "query"]
    /\ UNCHANGED <<options, allPlatformsPassed, allowZeroAssertions, retryCount,
                   keepAliveTimeoutId, keepAliveTimers, driverSession, coord,
                   completed, exitCode, initCall, navigated, jobTimeoutId,
                   scraper, texts, statuses, cbCalls, cbErrs, closeCalls,
                   closedBy, reportedBy, pureIn, pureOut>>

\* waitForElementsByCssSelector's callback in getElementText
WaitReturns(t, err) ==
    /\ Alive
    /\ scraper[t] = "wait"
    /\ IF err
       THEN /\ \E crash \in BOOLEAN :
                 checkTestResultsDone(t, "error", texts[t], crash, scraper)
            /\ texts' = [texts EXCEPT ![t] = <<>>]
       ELSE /\ scraper' = [scraper EXCEPT ![t] = "text"]
            /\ UNCHANGED <<allPlatformsPassed, retryCount, coord, completed,
                           exitCode, initCall, keepAliveTimeoutId,
                           keepAliveTimers, jobTimeoutId, poller, texts,
                           statuses, cbCalls, cbErrs, closeCalls, closedBy,
                           reportedBy>>
    /\ UNCHANGED <<options, allowZeroAssertions, driverSession, navigated,
                   pureIn, pureOut>>

\* driver.text's callback in getElementText; r is "stale" (the
\* StaleElementReferenceException), "err" (any other error) or the text
TextReturns(t, r) ==
    /\ Alive
    /\ scraper[t] = "text"
    /\ CASE r = "stale" ->
              /\ scraper' = [scraper EXCEPT ![t] = "hung"]
              /\ \E crash \in BOOLEAN :
                     Apply(Cb(CState, t, TRUE, crash, options.runInParallel,
                              driverSession))
              /\ UNCHANGED <<allPlatformsPassed, retryCount, jobTimeoutId,
                             poller, texts, statuses, reportedBy>>
         [] r = "err" ->
              /\ \E crash \in BOOLEAN :
                     checkTestResultsDone(t, "error", texts[t], crash, scraper)
              /\ texts' = [texts EXCEPT ![t] = <<>>]
         [] OTHER ->
              LET results == Append(texts[t], r)
              IN  IF Len(results) < 3
                  THEN /\ texts' = [texts EXCEPT ![t] = results]
                       /\ scraper' = [scraper EXCEPT ![t] = "wait"]
                       /\ UNCHANGED <<allPlatformsPassed, retryCount, coord,
                                      completed, exitCode, initCall,
                                      keepAliveTimeoutId, keepAliveTimers,
                                      jobTimeoutId, poller, statuses, cbCalls,
                                      cbErrs, closeCalls, closedBy, reportedBy>>
                  ELSE /\ \E crash \in BOOLEAN :
                              checkTestResultsDone(t, "none", results, crash,
                                                   scraper)
                       /\ texts' = [texts EXCEPT ![t] = <<>>]
    /\ UNCHANGED <<options, allowZeroAssertions, driverSession, navigated,
                   pureIn, pureOut>>

----------------------------------------------------------------------------
(* The run *)

RunInit ==
    /\ allPlatformsPassed = TRUE
    /\ allowZeroAssertions = TRUE
    /\ retryCount = 0
    /\ keepAliveTimeoutId = 0
    /\ keepAliveTimers = {}
    /\ driverSession = 0
    /\ coord = "idle"
    /\ completed = 0
    /\ exitCode = -1
    /\ initCall = [t \in Tasks |-> "none"]
    /\ navigated = {}
    /\ jobTimeoutId = [t \in Tasks |-> FALSE]
    /\ poller = [t \in Tasks |-> "none"]
    /\ scraper = [t \in Tasks |-> "none"]
    /\ texts = [t \in Tasks |-> <<>>]
    /\ statuses = [t \in Tasks |-> <<>>]
    /\ cbCalls = [t \in Tasks |-> 0]
    /\ cbErrs = [t \in Tasks |-> 0]
    /\ closeCalls = [s \in Sessions |-> 0]
    /\ closedBy = {}
    /\ reportedBy = {}

Init ==
    /\ options \in [zeroAssertionsPass : {"undefined", "true", "false"},
                    runInParallel : BOOLEAN]
    /\ RunInit
    /\ pureIn = NoPure
    /\ pureOut = NoPure

Next ==
    \/ Run
    \/ QuitReturns
    \/ KeepAliveTick
    \/ \E t \in Tasks : \E err \in BOOLEAN : InitReturns(t, err)
    \/ \E t \in Tasks : \E r \in {"queryErr", "jobErr", "ok"} : ShowJobReturns(t, r)
    \/ \E t \in Tasks : JobTimerFires(t)
    \/ \E t \in Tasks : \E err \in BOOLEAN : WaitReturns(t, err)
    \/ \E t \in Tasks : \E r \in {"stale", "err"} \cup Texts : TextReturns(t, r)

Spec == Init /\ [][Next]_vars

----------------------------------------------------------------------------
(* The pure functions applied to inputs drawn from bounded sets *)

\* texts a counter can show
CounterTexts == {"0", "1", "4", "5", "10"}

\* the six fields processPlatform reads, with one value each
FieldValue ==
    [deviceName |-> <<"P", "h">>, platform |-> <<"W", " ", "7">>,
     platformName |-> <<"i", "O", "S">>, platformVersion |-> <<"9">>,
     browserName |-> <<"c", "h">>, version |-> <<"5", "5">>]

FieldKeys == DOMAIN FieldValue

\* urlObj.name || DEFAULT_TEST_NAME
TestNames == {<<"q", "u">>, <<"m", "y", " ", "t">>}

\* every order in which a descriptor can list any of the six fields
FieldOrders ==
    {ks \in UNION {[1..n -> FieldKeys] : n \in 0..Cardinality(FieldKeys)} :
        \A i, j \in 1..Len(ks) : i # j => ks[i] # ks[j]}

Descriptor(ks) == [i \in 1..Len(ks) |-> <<ks[i], FieldValue[ks[i]]>>]

PureInit ==
    /\ options = [zeroAssertionsPass |-> "undefined", runInParallel |-> FALSE]
    /\ RunInit
    /\ pureOut = NoPure
    /\ \/ pureIn \in [kind : {"verdict"}, passed : CounterTexts,
                      failed : CounterTexts, total : CounterTexts,
                      zeroAssertionsPass : {"undefined", "true", "false"}]
       \/ \E ks \in FieldOrders, testName \in TestNames :
              pureIn = [kind |-> "platform", testName |-> testName,
                        platform |-> Descriptor(ks)]

\* module.exports takes zeroAssertionsPass; checkTestResults decides on the
\* three texts
Verdict ==
    /\ pureIn.kind = "verdict"
    /\ pureOut.kind = "none"
    /\ pureOut' = [kind |-> "verdict",
                   result |-> AllTestsPassed(pureIn.passed, pureIn.failed,
                                  pureIn.total,
                                  ZeroAssertionsOption(pureIn.zeroAssertionsPass,
                                                       allowZeroAssertions))]
    /\ UNCHANGED <<runVars, pureIn>>

\* module.exports calls processPlatform(testName, platform)
BuildPlatform ==
    /\ pureIn.kind = "platform"
    /\ pureOut.kind = "none"
    /\ pureOut' = [kind |-> "platform",
                   result |-> processPlatform(pureIn.testName, pureIn.platform)]
    /\ UNCHANGED <<runVars, pureIn>>

PureNext == Verdict \/ BuildPlatform

PureSpec == PureInit /\ [][PureNext]_vars

\* every external call eventually returns and every scheduled timer
\* eventually fires, as long as the process is alive
Fairness ==
    /\ WF_vars(Run)
    /\ WF_vars(QuitReturns)
    /\ WF_vars(KeepAliveTick)
    /\ \A t \in Tasks :
        /\ WF_vars(\E err \in BOOLEAN : InitReturns(t, err))
        /\ WF_vars(\E r \in {"queryErr", "jobErr", "ok"} : ShowJobReturns(t, r))
        /\ WF_vars(JobTimerFires(t))
        /\ WF_vars(\E err \in BOOLEAN : WaitReturns(t, err))
        /\ WF_vars(\E r \in {"stale", "err"} \cup Texts : TextReturns(t, r))

FairSpec == Spec /\ Fairness

----------------------------------------------------------------------------
(* Claims *)

Launched(t) == initCall[t] # "none"

\* C1: every launched runner task eventually calls its completion callback,
\* whatever faults the external calls return.
C1_EveryLaunchedTaskCompletes ==
    \A t \in Tasks : Launched(t) ~> (cbCalls[t] >= 1)

\* C2: the completion callback of a runner task is called at most once.
C2_CallbackAtMostOnce ==
    \A t \in Tasks : cbCalls[t] <= 1

\* the outcome a runner ended with: the status of its last testComplete
Outcome(t) == IF statuses[t] = <<>> THEN "none"
              ELSE IF statuses[t][Len(statuses[t])] THEN "true" ELSE "false"

\* C3: when the process exits, the exit code is 0 iff every task ended with
\* outcome true, and 1 otherwise (so it is the same in both modes).
C3_ExitCodeIsAggregate ==
    coord = "exited" =>
        /\ exitCode \in {0, 1}
        /\ (exitCode = 0) <=> (\A t \in Tasks : Outcome(t) = "true")

\* C4: a runner never passes an error to its completion callback: whenever
\* the callback has been called, it was called without error and the runner
\* has an outcome.
C4_NoErrorPastTheCoordinator ==
    \A t \in Tasks : cbErrs[t] = 0 /\ (cbCalls[t] >= 1 => Outcome(t) # "none")

\* C5: the session a runner's init created is closed at most once, and it
\* has been closed exactly once when the process has exited.
C5_SessionClosedExactlyOnce ==
    \A t \in Tasks : initCall[t] = "ok" =>
        /\ closeCalls[t] <= 1
        /\ (coord = "exited" => closeCalls[t] = 1)

\* runner t holds an open session: its init succeeded and no close has been
\* issued for the session it created
OpenSession(t) == initCall[t] = "ok" /\ closeCalls[t] = 0

\* C6: the keep-alive timer is not pending while some runner holds an open
\* session.
C6_NoHeartbeatWhileSessionOpen ==
    (\E t \in Tasks : OpenSession(t)) => keepAliveTimers = {}

\* C6 witness: a runner holds an open session after another runner's init
\* failed and left the heartbeat running.
C6_Witness ==
    \E t1, t2 \in Tasks :
        /\ initCall[t1] = "err" /\ OpenSession(t2)
        /\ keepAliveTimers = {} /\ keepAliveTimeoutId = 0

\* C7: at most one keep-alive timer is pending, and it is the one
\* keepAliveTimeoutId refers to; a step in which a pending timer is replaced
\* by another (a tick) leaves exactly one pending.
C7_SingleHeartbeat ==
    /\ [](Cardinality(keepAliveTimers) <= 1)
    /\ [](keepAliveTimers # {} => keepAliveTimers = {keepAliveTimeoutId})
    /\ [][(keepAliveTimers # {} /\ keepAliveTimers' # keepAliveTimers
             /\ keepAliveTimers' # {})
          => Cardinality(keepAliveTimers') = 1]_vars

\* C7 witness: two runners are initializing at the same time, one timer is
\* pending and it is not the first one (a tick has fired).
C7_Witness ==
    /\ \E t1, t2 \in Tasks : t1 # t2 /\ initCall[t1] = "pending"
                                    /\ initCall[t2] = "pending"
    /\ Cardinality(keepAliveTimers) = 1
    /\ keepAliveTimeoutId > 1

\* C8: a stale-element fault with retries left does not end the scraper: the
\* three-read sequence is run again (the scraper is never left without a
\* pending read) and the runner's callback gets no error from it.
C8_StaleFaultIsRetried ==
    \A t \in Tasks :
        retryCount < MAX_RETRIES => (scraper[t] # "hung" /\ cbErrs[t] = 0)

\* C9: the scraper's outcome is true iff passed equals total as strings,
\* failed is the string "0", and total is not "0" unless zero assertions are
\* allowed; the four literal cases of the spec come out as stated.
C9_PassPredicate ==
    pureOut.kind = "verdict" =>
        LET p == pureIn.passed
            f == pureIn.failed
            n == pureIn.total
            zeroOk == pureIn.zeroAssertionsPass # "false"
            fails == p # n \/ f # "0" \/ (n = "0" /\ ~zeroOk)
        IN  /\ pureOut.result = ~fails
            /\ (p = "5" /\ f = "0" /\ n = "5" /\ ~zeroOk) => pureOut.result
            /\ (p = "0" /\ f = "0" /\ n = "0" /\ ~zeroOk) => ~pureOut.result
            /\ (p = "0" /\ f = "0" /\ n = "0" /\ zeroOk) => pureOut.result
            /\ (p = "4" /\ f = "1" /\ n = "5" /\ ~zeroOk) => ~pureOut.result

\* C9 witness: zero of zero assertions passed and the policy forbids it.
C9_Witness ==
    /\ pureOut.kind = "verdict"
    /\ pureIn.passed = "0" /\ pureIn.failed = "0" /\ pureIn.total = "0"
    /\ pureIn.zeroAssertionsPass = "false"
    /\ ~pureOut.result

\* the fixed order of the name's fields
NameOrder == <<"deviceName", "platform", "platformName", "platformVersion",
               "browserName", "version">>

\* the values of the fields of NameOrder[i..] that the descriptor has,
\* separated by single spaces
RECURSIVE PresentValues(_, _)
PresentValues(platform, i) ==
    IF i > Len(NameOrder) THEN <<>>
    ELSE LET rest == PresentValues(platform, i + 1)
         IN  IF ~Has(platform, NameOrder[i]) THEN rest
             ELSE IF rest = <<>> THEN FieldValue[NameOrder[i]]
             ELSE FieldValue[NameOrder[i]] \o <<" ">> \o rest

\* C10: the display name is the test name followed, in parentheses, by the
\* values of exactly the present fields in the fixed order deviceName,
\* platform, platformName, platformVersion, browserName, version, whatever
\* the order of the fields in the descriptor.
C10_NameHasPresentFieldsInOrder ==
    pureOut.kind = "platform" =>
        Get(pureOut.result, "name") =
            pureIn.testName \o <<" ", "(">>
                \o PresentValues(pureIn.platform, 1) \o <<")">>

\* C10 witness: a descriptor that lists version first and deviceName last,
\* with platformName absent, has been named.
C10_Witness ==
    /\ pureOut.kind = "platform"
    /\ Len(pureIn.platform) >= 2
    /\ pureIn.platform[1][1] = "version"
    /\ pureIn.platform[Len(pureIn.platform)][1] = "deviceName"
    /\ ~Has(pureIn.platform, "platformName")

\* runner t has completed: its testComplete has run or its cb was called
Completed(t) == statuses[t] # <<>> \/ cbCalls[t] >= 1

\* C11: a job-status query error does not fail the run and the poller
\* re-arms: as long as the runner has not completed, its poller has a query
\* in flight or a timer pending (it never stops for good).
C11_QueryErrorRearms ==
    \A t \in Tasks :
        (initCall[t] = "ok" /\ ~Completed(t)) => poller[t] \in {"query", "timer"}

\* C12: once a runner has completed, no job-status poll timer of that runner
\* is pending, also when a query was in flight at the moment it completed.
C12_NoPollTimerAfterCompletion ==
    \A t \in Tasks : statuses[t] # <<>> => poller[t] # "timer"

\* runner t is Initializing or Running
Initializing(t) == initCall[t] = "pending"
Running(t) == initCall[t] = "ok" /\ ~Completed(t)

\* C13: the process exits only after every runner task has signalled
\* completion: never while a runner is Initializing or Running.
C13_ExitOnlyAfterAllCompleted ==
    coord = "exited" =>
        \A t \in Tasks : ~Initializing(t) /\ ~Running(t) /\ cbCalls[t] >= 1

\* C14: in sequential mode the runners are started in list order, one at a
\* time: a runner is launched only after the one before it has signalled
\* completion, and at most one runner is Initializing or Running.
C14_SeriesOneAtATime ==
    ~options.runInParallel =>
        /\ \A t \in Tasks : (t > 1 /\ Launched(t)) => cbCalls[t - 1] >= 1
        /\ Cardinality({t \in Tasks : Initializing(t) \/ Running(t)}) <= 1

\* C14 witness: in sequential mode the second runner is initializing after
\* the first one ran on its session and signalled completion.
C14_Witness ==
    /\ ~options.runInParallel
    /\ initCall[1] = "ok" /\ cbCalls[1] = 1
    /\ Initializing(2)

\* C15: a runner whose init failed is Completed with outcome false at once:
\* it has not navigated, has started neither poller nor scraper, its init is
\* not called again, and it has touched no other runner's session.
C15_InitFailureOnlyFailsItsRunner ==
    \A t \in Tasks : initCall[t] = "err" =>
        /\ statuses[t] = <<FALSE>> /\ cbCalls[t] = 1
        /\ t \notin navigated
        /\ poller[t] = "none" /\ scraper[t] = "none"
        /\ \A u \in Tasks \ {t} :
              /\ <<t, u>> \notin closedBy
              /\ \A st \in BOOLEAN : <<t, u, st>> \notin reportedBy

\* C16: the step in which a job-status response reports a job error gives
\* the runner the outcome false and makes the aggregate false, and a poller
\* that has stopped is not armed again.
C16_JobErrorFailsRunner ==
    /\ [][\A t \in Tasks :
            (poller[t] = "query" /\ poller'[t] = "stopped"
                /\ statuses'[t] # statuses[t])
            => /\ statuses'[t] = Append(statuses[t], FALSE)
               /\ allPlatformsPassed' = FALSE]_vars
    /\ [][\A t \in Tasks : poller[t] = "stopped" => poller'[t] = "stopped"]_vars

\* C16 witness: a runner got the outcome false from its poller while its
\* scraper was still reading, and the aggregate is false.
C16_Witness ==
    \E t \in Tasks :
        /\ poller[t] = "stopped" /\ statuses[t] = <<FALSE>>
        /\ scraper[t] \in {"wait", "text"}
        /\ ~allPlatformsPassed

\* C17: the scraper reads passed, failed, total one after the other, a read
\* starting only when the one before it has returned its text; a failed
\* element wait or a failed text read (other than the stale-element fault)
\* ends the sequence with the outcome false and no read is issued after it.
C17_ReadsInSequenceAbortOnFailure ==
    /\ [](\A t \in Tasks : scraper[t] \in {"wait", "text"} => Len(texts[t]) <= 2)
    /\ [][\A t \in Tasks :
            texts'[t] # texts[t] =>
                \/ /\ scraper[t] = "text"
                   /\ Len(texts'[t]) = Len(texts[t]) + 1
                   /\ SubSeq(texts'[t], 1, Len(texts[t])) = texts[t]
                   /\ scraper'[t] = "wait"
                \/ texts'[t] = <<>> /\ scraper'[t] = "done"]_vars
    /\ [][\A t \in Tasks :
            (scraper'[t] = "done" /\ scraper[t] # "done"
                /\ (scraper[t] = "wait" \/ Len(texts[t]) < 2))
            => statuses'[t] = Append(statuses[t], FALSE)]_vars
    /\ [][\A t \in Tasks : scraper[t] = "done" =>
            (scraper'[t] = "done" /\ texts'[t] = <<>>)]_vars

\* C17 witness: one runner's scraper was ended by a failed read and gave the
\* outcome false while its poller goes on, another runner is on its third read.
C17_Witness ==
    \E t, u \in Tasks :
        /\ scraper[t] = "done" /\ statuses[t] = <<FALSE>>
        /\ poller[t] \in {"query", "timer"}
        /\ scraper[u] = "text" /\ Len(texts[u]) = 2

C19_HeartbeatWhileInitializing ==
    (Alive /\ \E t \in Tasks : Initializing(t)) => keepAliveTimers # {}

\* C20: in concurrent mode a runner reports its outcome on, and closes, the
\* session its own init created, never another runner's.
C20_RunnerUsesItsOwnSession ==
    options.runInParallel =>
        \A t \in Tasks :
            /\ \A u \in Tasks : <<t, u>> \in closedBy => u = t
            /\ \A u \in Tasks, st \in BOOLEAN :
                  <<t, u, st>> \in reportedBy => u = t

====
